---- MODULE Spec2Model ----
(***************************************************************************)
(* Model of the workflow engine of nodejs-workflow-library:                *)
(* WorkflowManager (states, transitions, currentState, previousState,      *)
(* timers, version), RuleEngine, MemoryStorage and Node's timer queue.     *)
(* The workflow is the one of the README and of the test fixture           *)
(* (initial -> in_progress -> completed), built by the constructor with    *)
(* storageType 'memory' from a definition that lists the states initial    *)
(* and in_progress; the state completed is added by the caller with        *)
(* addState, and until then the edge in_progress -> completed names a      *)
(* state that does not exist (as invalid_state does in the tests).         *)
(* Callers add states, transitions and rules and request transitions.      *)
(* Each call records the steps it took, in the order of the code, and the  *)
(* listeners it invoked: the state-change log lines of WorkflowMonitor,    *)
(* the payloads given to Webhook.send, the events given to EventManager.   *)
(***************************************************************************)
EXTENDS Integers, Sequences, FiniteSets, TLC

VARIABLES
  states,         \* WorkflowManager.states: sequence of State objects {name, isActive}
  transitions,    \* WorkflowManager.transitions: sequence of Transition objects
  rules,          \* RuleEngine.rules: rule name -> registered predicate
  currentState,   \* WorkflowManager.currentState: index into states, 0 = null
  previousState,  \* WorkflowManager.previousState: index into states, 0 = null
  timers,         \* WorkflowManager.timers: name -> handle kept under that key
  leaked,         \* armed timeouts whose handle was overwritten in timers, per target name
  storage,        \* the storage backend: key -> value, and the writes in flight
  version,        \* ConfigManager.config['version']
  webhookUrl,     \* ConfigManager.config['webhookUrl']
  events,         \* WorkflowManager.events: sequence of Event objects {name, callback}
  listeners,      \* EventManager.events: event name -> callbacks in registration order
  last            \* the most recent call: arguments, reported and raised errors

vars == <<states, transitions, rules, currentState, previousState,
          timers, leaked, storage, version, webhookUrl, events, listeners, last>>

----------------------------------------------------------------------------
(* Bounds *)

MaxStates == 3          \* states.length is kept <= MaxStates
MaxTransitions == 3     \* transitions.length is kept <= MaxTransitions
MaxTimers == 2          \* armed timeouts at any time
MaxEvents == 3          \* events.length is kept <= MaxEvents
MaxListeners == 2       \* callbacks registered with on(), over all event names
MaxInFlight == 2        \* writes issued to a networked storage and not settled

(* Inputs *)

DefinitionStates == <<"initial", "in_progress">>
AddedStateNames == {"completed"}
Names == {"initial", "in_progress", "completed"}
RuleNames == {"true"}

\* the workflow of the README, whose two edges name two rules
ReadmeStates == <<"initial", "in_progress", "completed">>
ReadmeRuleNames == {"canStart", "canComplete"}
AllRuleNames == RuleNames \cup ReadmeRuleNames
Delays == {0, 1000}
Versions == {"", "1.0.0", "2.0.0"}

Undefined == "<undefined>"      \* a missing key, a null reference
NoError == "none"

WebhookUrl == "http://webhook.url"
WebhookUrls == {Undefined, WebhookUrl}

\* `transitionTo${stateName}`
SyntheticEvent(stateName) ==
  CASE stateName = "initial" -> "transitionToinitial"
    [] stateName = "in_progress" -> "transitionToin_progress"
    [] stateName = "completed" -> "transitionTocompleted"

\* the names events are triggered under; listeners are registered under ListenedNames
EventNames == {SyntheticEvent(n) : n \in Names} \cup {"customEvent"}
ListenedNames == {"transitionToin_progress", "customEvent"}

\* callbacks given to on(): two that return and one that throws
Callbacks == {"first", "second", "throwing"}

\* the events of the definition and the Event a caller adds with addEvent
DefinitionEvents ==
  << [name |-> "taskStarted", callback |-> "taskStartedCallback"],
     [name |-> "taskCompleted", callback |-> "taskCompletedCallback"] >>
AddedEvents == {[name |-> "transitionToin_progress", callback |-> "mockCallback"]}

\* lists of state names given to transitionToParallel
ParallelLists == {<<"in_progress">>, <<"in_progress", "completed">>}

\* condition of a Transition: a reference to a named rule, resolved by the
\* RuleEngine when the guard is evaluated, or a closure returning true
RuleCond(r) == [kind |-> "rule", rule |-> r]
TrueCond == [kind |-> "closure", rule |-> Undefined]

DefinitionTransitions ==
  << [from |-> "initial", to |-> "in_progress", condition |-> RuleCond("true")],
     [from |-> "in_progress", to |-> "completed", condition |-> RuleCond("true")] >>

ReadmeTransitions ==
  << [from |-> "initial", to |-> "in_progress", condition |-> RuleCond("canStart")],
     [from |-> "in_progress", to |-> "completed",
      condition |-> RuleCond("canComplete")] >>

AddedTransitions ==
  { [from |-> "initial", to |-> "in_progress", condition |-> TrueCond],
    [from |-> "in_progress", to |-> "in_progress", condition |-> TrueCond] }

----------------------------------------------------------------------------
(* Helpers *)

Min(S) == CHOOSE i \in S : \A j \in S : i <= j

\* Array.prototype.find on states by name: index of the first match, 0 = undefined
FindState(sts, name) ==
  LET S == {i \in DOMAIN sts : sts[i].name = name}
  IN IF S = {} THEN 0 ELSE Min(S)

\* Array.prototype.find on transitions by (from, to): index of the first match
FindTransition(trs, from, to) ==
  LET S == {i \in DOMAIN trs : trs[i].from = from /\ trs[i].to = to}
  IN IF S = {} THEN 0 ELSE Min(S)

\* currentState?.name
NameOf(sts, idx) == IF idx = 0 THEN Undefined ELSE sts[idx].name

\* JavaScript truthiness of a string or undefined
Truthy(v) == v # Undefined /\ v # ""

\* RuleEngine.evaluateRule: "T", "F", or "throws" when no rule is registered
EvaluateRule(rs, name) ==
  IF rs[name] = Undefined THEN "throws" ELSE rs[name]

\* Transition.canTransition: invokes the condition
CanTransition(rs, t) ==
  IF t.condition.kind = "closure" THEN "T" ELSE EvaluateRule(rs, t.condition.rule)

SetActive(sts, idx, flag) == [sts EXCEPT ![idx].isActive = flag]

\* MemoryStorage.set / get
StorageSet(st, key, value) == [st EXCEPT ![key] = value]
StorageGet(st, key) == st[key]

\* WorkflowManager.saveState: MemoryStorage.set stores the value; the set
\* of MongoStorage and RedisStorage returns a promise that saveState neither
\* awaits nor catches, so the write is in flight when saveState returns
SaveState(st, stateName) ==
  IF st.kind = "memory"
  THEN StorageSet(st, "currentState", stateName)
  ELSE [st EXCEPT !.inflight = Append(@, stateName), !.issued = stateName]

\* the storage object made by the constructor for config.storageType:
\* "memory", or "networked" for a backend whose set returns a promise
NewStorage(storageType) ==
  [currentState |-> Undefined, version |-> Undefined, kind |-> storageType,
   inflight |-> <<>>, issued |-> Undefined]

\* a sequence without its i-th element
RemoveAt(seq, i) == SubSeq(seq, 1, i - 1) \o SubSeq(seq, i + 1, Len(seq))

\* number of armed timeouts
ArmedCount ==
  Cardinality({n \in Names : timers[n] = "armed"})
  + leaked["initial"] + leaked["in_progress"] + leaked["completed"]

\* rollback that returns silently when there is no previous state
RollbackSilent(sts, cur, prev) ==
  IF prev # 0
  THEN [states |-> SetActive(SetActive(sts, cur, FALSE), prev, TRUE),
        currentState |-> prev,
        previousState |-> 0,
        raised |-> NoError]
  ELSE [states |-> sts, currentState |-> cur, previousState |-> prev,
        raised |-> NoError]

\* rollback that does not clear previousState
RollbackKeepsPrevious(sts, cur, prev) ==
  IF prev # 0
  THEN [states |-> SetActive(SetActive(sts, cur, FALSE), prev, TRUE),
        currentState |-> prev,
        previousState |-> prev,
        raised |-> NoError]
  ELSE [states |-> sts, currentState |-> cur, previousState |-> prev,
        raised |-> "NoPreviousState"]

\* WorkflowManager.rollback on (states, currentState, previousState)
Rollback(sts, cur, prev) ==
  IF prev # 0
  THEN [states |-> SetActive(SetActive(sts, cur, FALSE), prev, TRUE),
        currentState |-> prev,
        previousState |-> 0,
        raised |-> NoError]
  ELSE [states |-> sts, currentState |-> cur, previousState |-> prev,
        raised |-> "NoPreviousState"]

\* new State(name): a State is created inactive
NewState(name) == [name |-> name, isActive |-> FALSE]

\* WorkflowManager.addState on (states, currentState, storage)
AddStateTo(w, name) ==
  LET sts == Append(w.states, NewState(name))
      idx == Len(sts)
  IN IF w.currentState = 0
     THEN [states |-> SetActive(sts, idx, TRUE), currentState |-> idx,
           storage |-> SaveState(w.storage, name)]
     ELSE [states |-> sts, currentState |-> w.currentState, storage |-> w.storage]

RECURSIVE InitializeStates(_, _)
\* initializeWorkflow: definition.states.forEach(addState)
InitializeStates(w, names) ==
  IF names = <<>> THEN w
  ELSE InitializeStates(AddStateTo(w, Head(names)), Tail(names))

\* a call and what its caller and the ErrorHandler saw of it: from is
\* currentState when it was made, handled the error given to
\* ErrorHandler.handleError, raised the error it threw (rejected with)
\* steps lists what the call did, in order; invoked the callbacks it ran;
\* list is the argument of transitionToParallel, response the HTTP response
Call(op, target, delay, from, outcome, handled, raised) ==
  [op |-> op, target |-> target, delay |-> delay, from |-> from,
   outcome |-> outcome, handled |-> handled, raised |-> raised,
   steps |-> <<>>, invoked |-> <<>>, list |-> <<>>, response |-> Undefined]

\* one step of a call: find, guard, deactivate, mutate, persist, setTimer,
\* handleError, restore (the swap of rollback),
\* log (WorkflowMonitor.logStateChange(from, to)),
\* webhook (Webhook.send(url, {from, to})), trigger (EventManager.trigger(to)),
\* logEvent, webhookEvent (Webhook.send(url, {event: to}))
Step(kind, from, to) == [step |-> kind, from |-> from, to |-> to]

\* this.currentState ? this.currentState.name : 'none'
OldStateName(sts, cur) == IF cur # 0 THEN sts[cur].name ELSE "none"

\* EventManager.trigger that stops after the first callback
TriggerFirstOnly(ls, eventName) ==
  LET cbs == ls[eventName]
  IN [invoked |-> IF cbs = <<>> THEN <<>> ELSE <<cbs[1]>>,
      raised |-> IF cbs # <<>> /\ cbs[1] = "throwing" THEN "ListenerError"
                 ELSE NoError]

\* EventManager.trigger: forEach over the callbacks registered under
\* eventName, in order; a callback that throws ends the loop
Trigger(ls, eventName) ==
  LET cbs == ls[eventName]
      T == {i \in DOMAIN cbs : cbs[i] = "throwing"}
  IN IF T = {} THEN [invoked |-> cbs, raised |-> NoError]
     ELSE [invoked |-> SubSeq(cbs, 1, Min(T)), raised |-> "ListenerError"]

\* WorkflowManager.triggerEvent on (listeners, webhookUrl)
TriggerEvent(ls, url, eventName) ==
  LET t == Trigger(ls, eventName)
  IN [invoked |-> t.invoked,
      raised |-> t.raised,
      steps |-> <<Step("trigger", Undefined, eventName)>>
                \o (IF t.raised # NoError THEN <<>>
                    ELSE <<Step("logEvent", Undefined, eventName)>>
                         \o (IF Truthy(url)
                             THEN <<Step("webhookEvent", Undefined, eventName)>>
                             ELSE <<>>))]

\* WorkflowMonitor.logStateChange(from, to), Webhook.send(url, {from, to}) if
\* a webhookUrl is configured, then triggerEvent(`transitionTo${to}`)
Notify(ls, url, from, to) ==
  LET e == TriggerEvent(ls, url, SyntheticEvent(to))
  IN [invoked |-> e.invoked,
      raised |-> e.raised,
      steps |-> <<Step("log", from, to)>>
                \o (IF Truthy(url) THEN <<Step("webhook", from, to)>> ELSE <<>>)
                \o e.steps]

----------------------------------------------------------------------------
\* the calls that build the workflow: the constructor, addState, addTransition, addRule
Setup == Call("setup", Undefined, 0, 0, "ok", NoError, NoError)

(* State after new WorkflowManager(workflowDefinition, {storageType: 'memory'}) *)

ConstructFrom(stateNames, trs, url, storageType) ==
  LET w == InitializeStates(
             [states |-> <<>>, currentState |-> 0,
              storage |-> NewStorage(storageType)],
             stateNames)
  IN /\ states = w.states
     /\ currentState = w.currentState
     /\ storage = w.storage
     /\ transitions = trs
     /\ rules = [r \in AllRuleNames |-> Undefined]
     /\ previousState = 0
     /\ timers = [n \in Names |-> Undefined]
     /\ leaked = [n \in Names |-> 0]
     /\ version = "1.0.0"
     /\ webhookUrl = url
     /\ events = DefinitionEvents
     /\ listeners = [e \in EventNames |-> <<>>]
     /\ last = Setup

\* the workflow of the test fixture with storageType 'memory'
Construct(url) ==
  ConstructFrom(DefinitionStates, DefinitionTransitions, url, "memory")

\* the manager of the test fixture, with webhookUrl 'http://webhook.url'
Init == Construct(WebhookUrl)

\* the manager of the test fixture with a networked storage: the write of
\* the first state's name, issued by addState, is in flight
InitNetworked ==
  ConstructFrom(DefinitionStates, DefinitionTransitions, WebhookUrl, "networked")

\* the manager of the README
InitReadme ==
  ConstructFrom(ReadmeStates, ReadmeTransitions, Undefined, "memory")

\* a manager constructed with or without a webhookUrl
InitAnyConfig == \E url \in WebhookUrls : Construct(url)

----------------------------------------------------------------------------
(* Operations *)

\* the configuration and the registrations of events and listeners
Registrations == <<webhookUrl, events, listeners>>

\* every variable of the program (last is the record kept of it)
ProgramState == <<states, transitions, rules, currentState, previousState,
                  timers, leaked, storage, version, webhookUrl, events,
                  listeners>>

addState(name) ==
  /\ Len(states) < MaxStates
  /\ Len(storage.inflight) < MaxInFlight
  /\ LET w == AddStateTo([states |-> states, currentState |-> currentState,
                          storage |-> storage], name)
     IN /\ states' = w.states
        /\ currentState' = w.currentState
        /\ storage' = w.storage
  /\ last' = Setup
  /\ UNCHANGED <<transitions, rules, previousState, timers, leaked, version>>
  /\ UNCHANGED Registrations

addTransition(t) ==
  /\ Len(transitions) < MaxTransitions
  /\ transitions' = Append(transitions, t)
  /\ last' = Setup
  /\ UNCHANGED <<states, rules, currentState, previousState, timers, leaked,
                 storage, version>>
  /\ UNCHANGED Registrations

\* addRule that keeps the predicate already registered under the name
AddRuleKeepsFirst(rs, name, rule) ==
  IF rs[name] = Undefined THEN [rs EXCEPT ![name] = rule] ELSE rs

\* RuleEngine.addRule on rules
AddRule(rs, name, rule) == [rs EXCEPT ![name] = rule]

addRule(name, rule) ==
  /\ rules' = AddRule(rules, name, rule)
  /\ last' = Setup
  /\ UNCHANGED <<states, transitions, currentState, previousState, timers,
                 leaked, storage, version>>
  /\ UNCHANGED Registrations

\* WorkflowManager.setTimer: arms a timeout and stores its handle under the
\* target name; a handle already stored there is overwritten, not cleared
SetTimer(tm, lk, stateName) ==
  [timers |-> [tm EXCEPT ![stateName] = "armed"],
   leaked |-> IF tm[stateName] = "armed"
              THEN [lk EXCEPT ![stateName] = @ + 1] ELSE lk]

\* timer callback that activates the target without making it current
TimerCallbackNoCurrent(sts, cur, st, stateName) ==
  LET newState == FindState(sts, stateName)
  IN IF newState # 0
     THEN [states |-> SetActive(sts, newState, TRUE),
           currentState |-> cur,
           storage |-> SaveState(st, stateName),
           outcome |-> "applied"]
     ELSE [states |-> sts, currentState |-> cur, storage |-> st,
           outcome |-> "noState"]

\* the callback given to setTimeout by setTimer, on (states, currentState, storage)
TimerCallback(sts, cur, st, stateName) ==
  LET newState == FindState(sts, stateName)
  IN IF newState # 0
     THEN [states |-> SetActive(sts, newState, TRUE),
           currentState |-> newState,
           storage |-> SaveState(st, stateName),
           outcome |-> "applied"]
     ELSE [states |-> sts, currentState |-> cur, storage |-> st,
           outcome |-> "noState"]

\* transition that activates the target without making it current
ApplyTransitionStale(sts, cur, prev, st, stateName) ==
  LET newState == FindState(sts, stateName)
  IN IF newState # 0
     THEN [states |-> SetActive(sts, newState, TRUE),
           currentState |-> cur,
           previousState |-> cur,
           storage |-> SaveState(st, stateName),
           outcome |-> "applied"]
     ELSE [states |-> sts, currentState |-> cur, previousState |-> prev,
           storage |-> st, outcome |-> "noState"]

\* the else branch of transitionTo (delay = 0) on the deactivated states
ApplyTransition(sts, cur, prev, st, stateName) ==
  LET newState == FindState(sts, stateName)
  IN IF newState # 0
     THEN [states |-> SetActive(sts, newState, TRUE),
           currentState |-> newState,
           previousState |-> cur,
           storage |-> SaveState(st, stateName),
           outcome |-> "applied"]
     ELSE [states |-> sts, currentState |-> cur, previousState |-> prev,
           storage |-> st, outcome |-> "noState"]

\* the error of the try block when a missing rule reads as a false guard
TransitionErrorMasksRule(trs, rs, from, stateName) ==
  LET ti == FindTransition(trs, from, stateName)
  IN IF ti = 0 THEN "InvalidTransition"
     ELSE IF CanTransition(rs, trs[ti]) = "T" THEN NoError
          ELSE "InvalidTransition"

\* the error thrown inside the try block of transitionTo, NoError if none
TransitionError(trs, rs, from, stateName) ==
  LET ti == FindTransition(trs, from, stateName)
  IN IF ti = 0 THEN "InvalidTransition"
     ELSE LET can == CanTransition(rs, trs[ti])
          IN IF can = "T" THEN NoError
             ELSE IF can = "throws" THEN "RuleNotFound"
             ELSE "InvalidTransition"

\* the steps of the code of rollback that ran: the pointers and flags are
\* swapped, then WorkflowMonitor.logStateChange('rollback', name)
RollbackSteps(rb) ==
  IF rb.raised = NoError
  THEN <<Step("restore", Undefined, NameOf(rb.states, rb.currentState)),
         Step("log", "rollback", NameOf(rb.states, rb.currentState))>>
  ELSE <<>>

\* steps that notify before the new state name is persisted
TransitionStepsNotifyFirst(found, guarded, cur, outcome, stateName, notified) ==
  <<Step("find", Undefined, stateName)>>
  \o (IF found THEN <<Step("guard", Undefined, stateName)>> ELSE <<>>)
  \o (IF guarded /\ cur # 0 THEN <<Step("deactivate", Undefined, Undefined)>>
      ELSE <<>>)
  \o (IF outcome = "applied" THEN <<Step("mutate", Undefined, stateName)>>
      ELSE <<>>)
  \o notified
  \o (IF outcome = "applied" THEN <<Step("persist", Undefined, stateName)>>
      ELSE <<>>)

\* the steps of the try block of transitionTo with delay 0, in the order of
\* the code: find the edge, call its guard if there is one, deactivate the
\* current state if the guard passed, set the pointers and the flag and
\* save the name if the target State exists, then notify
TransitionSteps(found, guarded, cur, outcome, stateName, notified) ==
  <<Step("find", Undefined, stateName)>>
  \o (IF found THEN <<Step("guard", Undefined, stateName)>> ELSE <<>>)
  \o (IF guarded /\ cur # 0 THEN <<Step("deactivate", Undefined, Undefined)>>
      ELSE <<>>)
  \o (IF outcome = "applied"
      THEN <<Step("mutate", Undefined, stateName),
             Step("persist", Undefined, stateName)>>
      ELSE <<>>)
  \o notified

\* WorkflowManager.transitionTo: the variables after the call and its record
TransitionTo(stateName, delay) ==
  LET cur == currentState
      from == NameOf(states, cur)
      found == FindTransition(transitions, from, stateName) # 0
      err == TransitionError(transitions, rules, from, stateName)
      deact == IF cur # 0 THEN SetActive(states, cur, FALSE) ELSE states
      same == [states |-> states, currentState |-> cur,
               previousState |-> previousState, storage |-> storage,
               timers |-> timers, leaked |-> leaked]
  IN IF err = NoError
     THEN IF delay > 0
          THEN LET t == SetTimer(timers, leaked, stateName)
               IN [same EXCEPT !.states = deact, !.timers = t.timers,
                               !.leaked = t.leaked]
                  @@ [call |->
                       [Call("transitionTo", stateName, delay, cur,
                             "scheduled", NoError, NoError)
                        EXCEPT !.steps =
                          TransitionSteps(TRUE, TRUE, cur, "scheduled",
                                          stateName, <<>>)
                          \o <<Step("setTimer", Undefined, stateName)>>]]
          ELSE LET a == ApplyTransition(deact, cur, previousState, storage,
                                        stateName)
                   n == Notify(listeners, webhookUrl,
                               OldStateName(states, cur), stateName)
                   tried == TransitionSteps(TRUE, TRUE, cur, a.outcome,
                                            stateName, n.steps)
               IN IF n.raised = NoError
                  THEN [same EXCEPT !.states = a.states,
                                    !.currentState = a.currentState,
                                    !.previousState = a.previousState,
                                    !.storage = a.storage]
                       @@ [call |->
                            [Call("transitionTo", stateName, delay, cur,
                                  a.outcome, NoError, NoError)
                             EXCEPT !.steps = tried, !.invoked = n.invoked]]
                  ELSE \* catch, after the listener threw
                       LET rb == Rollback(a.states, a.currentState,
                                          a.previousState)
                       IN [same EXCEPT !.states = rb.states,
                                       !.currentState = rb.currentState,
                                       !.previousState = rb.previousState,
                                       !.storage = a.storage]
                          @@ [call |->
                               [Call("transitionTo", stateName, delay, cur,
                                     "rejected", n.raised, rb.raised)
                                EXCEPT !.steps =
                                  tried
                                  \o <<Step("handleError", Undefined, n.raised)>>
                                  \o RollbackSteps(rb),
                                  !.invoked = n.invoked]]
     ELSE \* catch: ErrorHandler.handleError(error); this.rollback()
          LET rb == Rollback(states, cur, previousState)
          IN [same EXCEPT !.states = rb.states,
                          !.currentState = rb.currentState,
                          !.previousState = rb.previousState]
             @@ [call |->
                  [Call("transitionTo", stateName, delay, cur,
                        "rejected", err, rb.raised)
                   EXCEPT !.steps =
                     TransitionSteps(found, FALSE, cur, "rejected",
                                     stateName, <<>>)
                     \o <<Step("handleError", Undefined, err)>>
                     \o RollbackSteps(rb)]]

transitionTo(stateName, delay) ==
  \E r \in {TransitionTo(stateName, delay)} :
     /\ r.call.outcome = "scheduled" => ArmedCount < MaxTimers
     /\ Len(r.storage.inflight) <= MaxInFlight
     /\ states' = r.states
     /\ currentState' = r.currentState
     /\ previousState' = r.previousState
     /\ storage' = r.storage
     /\ timers' = r.timers
     /\ leaked' = r.leaked
     /\ last' = r.call
     /\ UNCHANGED <<transitions, rules, version>>
     /\ UNCHANGED Registrations

\* the body of the callback of setTimer: the variables after it ran and
\* its record; an error thrown by a listener is caught by nobody
TimerExpires(op, stateName) ==
  LET c == TimerCallback(states, currentState, storage, stateName)
      n == IF c.outcome = "applied"
           THEN Notify(listeners, webhookUrl, "timed transition", stateName)
           ELSE [invoked |-> <<>>, raised |-> NoError, steps |-> <<>>]
  IN [states |-> c.states, currentState |-> c.currentState,
      storage |-> c.storage,
      call |-> [Call(op, stateName, 0, currentState, c.outcome,
                     NoError, n.raised)
                EXCEPT !.steps =
                         (IF c.outcome = "applied"
                          THEN <<Step("mutate", Undefined, stateName),
                                 Step("persist", Undefined, stateName)>>
                          ELSE <<>>) \o n.steps,
                       !.invoked = n.invoked]]

\* the timeout whose handle is stored in timers[stateName] expires
timerFires(stateName) ==
  /\ timers[stateName] = "armed"
  /\ \E c \in {TimerExpires("timer", stateName)} :
        /\ Len(c.storage.inflight) <= MaxInFlight
        /\ states' = c.states
        /\ currentState' = c.currentState
        /\ storage' = c.storage
        /\ last' = c.call
  /\ timers' = [timers EXCEPT ![stateName] = "fired"]
  /\ UNCHANGED <<transitions, rules, previousState, leaked, version>>
  /\ UNCHANGED Registrations

\* a timeout whose handle was overwritten in timers expires
leakedTimerFires(stateName) ==
  /\ leaked[stateName] > 0
  /\ \E c \in {TimerExpires("leakedTimer", stateName)} :
        /\ Len(c.storage.inflight) <= MaxInFlight
        /\ states' = c.states
        /\ currentState' = c.currentState
        /\ storage' = c.storage
        /\ last' = c.call
  /\ leaked' = [leaked EXCEPT ![stateName] = @ - 1]
  /\ UNCHANGED <<transitions, rules, previousState, timers, version>>
  /\ UNCHANGED Registrations

\* clearTimer that drops every stored handle
ClearTimerAll(tm, stateName) ==
  [n \in DOMAIN tm |-> Undefined]

\* WorkflowManager.clearTimer on timers: clearTimeout of the stored handle
\* (a no-op on a handle that already fired), then delete the key
ClearTimer(tm, stateName) ==
  IF tm[stateName] # Undefined THEN [tm EXCEPT ![stateName] = Undefined] ELSE tm

clearTimer(stateName) ==
  /\ timers' = ClearTimer(timers, stateName)
  /\ last' = Call("clearTimer", stateName, 0, currentState, "ok",
                  NoError, NoError)
  /\ UNCHANGED <<states, transitions, rules, currentState, previousState,
                 leaked, storage, version>>
  /\ UNCHANGED Registrations

rollback ==
  LET rb == Rollback(states, currentState, previousState)
  IN /\ states' = rb.states
     /\ currentState' = rb.currentState
     /\ previousState' = rb.previousState
     /\ last' = [Call("rollback", Undefined, 0, currentState,
                      IF rb.raised = NoError THEN "ok" ELSE "rejected",
                      NoError, rb.raised)
                 EXCEPT !.steps = RollbackSteps(rb)]
     /\ UNCHANGED <<transitions, rules, timers, leaked, storage, version>>
     /\ UNCHANGED Registrations

\* loadState that only follows an edge whose guard passes
LoadStateGuarded(sts, cur, st) ==
  LET stateName == StorageGet(st, "currentState")
      state == IF Truthy(stateName) THEN FindState(sts, stateName) ELSE 0
  IN IF state # 0
        /\ TransitionError(transitions, rules, NameOf(sts, cur), stateName) = NoError
     THEN [states |-> SetActive(sts, state, TRUE), currentState |-> state]
     ELSE [states |-> sts, currentState |-> cur]

\* WorkflowManager.loadState on (states, currentState, storage)
LoadState(sts, cur, st) ==
  LET stateName == StorageGet(st, "currentState")
      state == IF Truthy(stateName) THEN FindState(sts, stateName) ELSE 0
  IN IF state # 0
     THEN [states |-> SetActive(sts, state, TRUE), currentState |-> state]
     ELSE [states |-> sts, currentState |-> cur]

loadState ==
  LET l == LoadState(states, currentState, storage)
  IN /\ states' = l.states
     /\ currentState' = l.currentState
     /\ last' = Call("loadState", StorageGet(storage, "currentState"), 0,
                     currentState, "ok", NoError, NoError)
     /\ UNCHANGED <<transitions, rules, previousState, timers, leaked,
                    storage, version>>
     /\ UNCHANGED Registrations

\* WorkflowManager.setVersion
setVersion(v) ==
  /\ version' = v
  /\ last' = Call("setVersion", v, 0, currentState, "ok", NoError, NoError)
  /\ UNCHANGED <<states, transitions, rules, currentState, previousState,
                 timers, leaked, storage>>
  /\ UNCHANGED Registrations

\* WorkflowManager.saveVersion on (version, storage)
SaveVersion(st, v) ==
  [version |-> v, storage |-> StorageSet(st, "version", v)]

saveVersion(v) ==
  LET s == SaveVersion(storage, v)
  IN /\ version' = s.version
     /\ storage' = s.storage
     /\ last' = Call("saveVersion", v, 0, currentState, "ok", NoError, NoError)
     /\ UNCHANGED <<states, transitions, rules, currentState, previousState,
                    timers, leaked>>
     /\ UNCHANGED Registrations

\* loadVersion that reads the key of the state name
LoadVersionWrongKey(ver, st) ==
  LET v == StorageGet(st, "currentState")
  IN IF Truthy(v) THEN v ELSE ver

\* WorkflowManager.loadVersion on (version, storage)
LoadVersion(ver, st) ==
  LET v == StorageGet(st, "version")
  IN IF Truthy(v) THEN v ELSE ver

loadVersion ==
  /\ version' = LoadVersion(version, storage)
  /\ last' = Call("loadVersion", StorageGet(storage, "version"), 0, currentState,
                  "ok", NoError, NoError)
  /\ UNCHANGED <<states, transitions, rules, currentState, previousState,
                 timers, leaked, storage>>
  /\ UNCHANGED Registrations

\* WorkflowManager.evaluateRule: the result of the predicate, or the error
\* of RuleEngine.evaluateRule when none is registered under the name
evaluateRule(name) ==
  /\ LET result == EvaluateRule(rules, name)
     IN last' = Call("evaluateRule", name, 0, currentState, result, NoError,
                     IF result = "throws" THEN "RuleNotFound" ELSE NoError)
  /\ UNCHANGED ProgramState

\* WorkflowManager.addEvent
addEvent(event) ==
  /\ Len(events) < MaxEvents
  /\ events' = Append(events, event)
  /\ last' = Setup
  /\ UNCHANGED <<states, transitions, rules, currentState, previousState,
                 timers, leaked, storage, version, webhookUrl, listeners>>

\* number of callbacks registered with on()
ListenerCount(ls) ==
  Len(ls["transitionToin_progress"]) + Len(ls["customEvent"])

\* EventManager.on on events (the listeners)
On(ls, eventName, callback) ==
  [ls EXCEPT ![eventName] = Append(@, callback)]

\* WorkflowManager.on
on(eventName, callback) ==
  /\ ListenerCount(listeners) < MaxListeners
  /\ listeners' = On(listeners, eventName, callback)
  /\ last' = Setup
  /\ UNCHANGED <<states, transitions, rules, currentState, previousState,
                 timers, leaked, storage, version, webhookUrl, events>>

\* WorkflowManager.triggerEvent called by a caller
triggerEvent(eventName) ==
  /\ LET e == TriggerEvent(listeners, webhookUrl, eventName)
     IN last' = [Call("triggerEvent", eventName, 0, currentState,
                      IF e.raised = NoError THEN "ok" ELSE "rejected",
                      NoError, e.raised)
                 EXCEPT !.steps = e.steps, !.invoked = e.invoked]
  /\ UNCHANGED ProgramState

\* WorkflowManager.transitionToParallel: throws 'Method not implemented.'
transitionToParallel(list) ==
  /\ last' = [Call("transitionToParallel", list[Len(list)], 0, currentState,
                   "rejected", NoError, "NotImplemented")
              EXCEPT !.list = list]
  /\ UNCHANGED ProgramState

\* router.post('/transition'): transitionTo(to) is called, its promise is
\* dropped, and the response is {success: true}
postTransition(to) ==
  \E r \in {TransitionTo(to, 0)} :
     /\ states' = r.states
     /\ currentState' = r.currentState
     /\ previousState' = r.previousState
     /\ storage' = r.storage
     /\ last' = [r.call EXCEPT !.op = "postTransition",
                               !.response = "success"]
     /\ UNCHANGED <<transitions, rules, timers, leaked, version>>
     /\ UNCHANGED Registrations

\* the promise of a write issued to a networked storage is fulfilled: the
\* backend now holds the value; writes settle in any order
writeCompletes(i) ==
  /\ i \in DOMAIN storage.inflight
  /\ storage' = [storage EXCEPT !.currentState = storage.inflight[i],
                                !.inflight = RemoveAt(@, i)]
  /\ last' = Call("writeCompleted", storage.inflight[i], 0, currentState,
                  "ok", NoError, NoError)
  /\ UNCHANGED <<states, transitions, rules, currentState, previousState,
                 timers, leaked, version>>
  /\ UNCHANGED Registrations

\* the promise of a write is rejected (MongoStorage.set throws 'Database not
\* connected', or the driver fails): nobody awaits or catches it
writeRejects(i) ==
  /\ i \in DOMAIN storage.inflight
  /\ storage' = [storage EXCEPT !.inflight = RemoveAt(@, i)]
  /\ last' = Call("writeRejected", storage.inflight[i], 0, currentState,
                  "unhandledRejection", NoError, "StorageError")
  /\ UNCHANGED <<states, transitions, rules, currentState, previousState,
                 timers, leaked, version>>
  /\ UNCHANGED Registrations

----------------------------------------------------------------------------
(* Specifications *)

Next ==
  \/ \E n \in AddedStateNames : addState(n)
  \/ \E t \in AddedTransitions : addTransition(t)
  \/ \E r \in RuleNames, p \in {"T", "F"} : addRule(r, p)
  \/ \E n \in Names, d \in Delays : transitionTo(n, d)
  \/ \E n \in Names : timerFires(n)
  \/ \E n \in Names : leakedTimerFires(n)
  \/ \E n \in Names : clearTimer(n)
  \/ rollback
  \/ loadState

Spec == Init /\ [][Next]_vars

\* version round trips, with the transitions that write the same storage
NextVersion ==
  \/ \E v \in Versions : setVersion(v)
  \/ \E v \in Versions : saveVersion(v)
  \/ loadVersion
  \/ \E r \in RuleNames, p \in {"T", "F"} : addRule(r, p)
  \/ \E n \in Names : transitionTo(n, 0)
  \/ loadState

SpecVersion == Init /\ [][NextVersion]_vars

\* the workflow of the definition, with its timers: Node's event loop runs
\* the callback of every armed timeout, so each of them eventually expires
NextDefined ==
  \/ \E n \in AddedStateNames : addState(n)
  \/ \E r \in RuleNames, p \in {"T", "F"} : addRule(r, p)
  \/ \E n \in Names, d \in Delays : transitionTo(n, d)
  \/ \E n \in Names : timerFires(n)
  \/ \E n \in Names : leakedTimerFires(n)
  \/ \E n \in Names : clearTimer(n)
  \/ rollback
  \/ loadState

SpecDefined == Init /\ [][NextDefined]_vars

FairSpec ==
  /\ Init /\ [][NextDefined]_vars
  /\ \A n \in Names : WF_vars(timerFires(n)) /\ WF_vars(leakedTimerFires(n))

\* immediate transitions over the edges of the definition and the edges
\* callers add (a second edge for a pair, a self-loop), without timers
NextEdges ==
  \/ \E n \in AddedStateNames : addState(n)
  \/ \E t \in AddedTransitions : addTransition(t)
  \/ \E r \in RuleNames, p \in {"T", "F"} : addRule(r, p)
  \/ \E n \in Names : transitionTo(n, 0)
  \/ rollback
  \/ loadState

SpecEdges == Init /\ [][NextEdges]_vars

\* the rule engine as callers use it, with the transitions it guards
NextRules ==
  \/ \E r \in RuleNames, p \in {"T", "F"} : addRule(r, p)
  \/ \E r \in RuleNames : evaluateRule(r)
  \/ \E n \in AddedStateNames : addState(n)
  \/ \E n \in Names : transitionTo(n, 0)
  \/ rollback
  \/ loadState

SpecRules == Init /\ [][NextRules]_vars

\* events and listeners, with the transitions that trigger them
NextEvents ==
  \/ \E e \in AddedEvents : addEvent(e)
  \/ \E e \in ListenedNames, c \in Callbacks : on(e, c)
  \/ \E e \in ListenedNames : triggerEvent(e)
  \/ \E r \in RuleNames, p \in {"T", "F"} : addRule(r, p)
  \/ \E n \in Names : transitionTo(n, 0)
  \/ rollback

SpecEvents == Init /\ [][NextEvents]_vars

\* notifications of immediate and timed transitions, with and without a
\* webhookUrl in the configuration
NextNotify ==
  \/ \E n \in AddedStateNames : addState(n)
  \/ \E r \in RuleNames, p \in {"T", "F"} : addRule(r, p)
  \/ \E n \in Names, d \in Delays : transitionTo(n, d)
  \/ \E n \in Names : timerFires(n)
  \/ \E n \in Names : leakedTimerFires(n)
  \/ rollback

SpecNotify == InitAnyConfig /\ [][NextNotify]_vars

\* the calls of the control surface and of transitionToParallel
NextControl ==
  \/ \E n \in AddedStateNames : addState(n)
  \/ \E t \in AddedTransitions : addTransition(t)
  \/ \E r \in RuleNames, p \in {"T", "F"} : addRule(r, p)
  \/ \E n \in Names : postTransition(n)
  \/ \E l \in ParallelLists : transitionToParallel(l)
  \/ rollback

SpecControl == Init /\ [][NextControl]_vars

\* a networked storage whose writes all succeed, in any order
NextAsync ==
  \/ \E n \in AddedStateNames : addState(n)
  \/ \E r \in RuleNames, p \in {"T", "F"} : addRule(r, p)
  \/ \E n \in Names, d \in Delays : transitionTo(n, d)
  \/ \E n \in Names : timerFires(n)
  \/ \E i \in 1..MaxInFlight : writeCompletes(i)

SpecAsync == InitNetworked /\ [][NextAsync]_vars

\* a networked storage whose writes succeed or fail
NextStorageFailure ==
  \/ \E n \in AddedStateNames : addState(n)
  \/ \E r \in RuleNames, p \in {"T", "F"} : addRule(r, p)
  \/ \E n \in Names : transitionTo(n, 0)
  \/ \E i \in 1..MaxInFlight : writeCompletes(i)
  \/ \E i \in 1..MaxInFlight : writeRejects(i)
  \/ rollback

SpecStorageFailure == InitNetworked /\ [][NextStorageFailure]_vars

\* the workflow of the README: each edge is guarded by its own rule
NextReadme ==
  \/ \E r \in ReadmeRuleNames, p \in {"T", "F"} : addRule(r, p)
  \/ \E n \in Names : transitionTo(n, 0)
  \/ rollback
  \/ loadState

SpecReadme == InitReadme /\ [][NextReadme]_vars

----------------------------------------------------------------------------
(* Properties *)

CurName == NameOf(states, currentState)
ActiveStates == {i \in DOMAIN states : states[i].isActive}

\* everything but the record of the last call
ProgramVars == <<states, transitions, rules, currentState, previousState,
                 timers, leaked, storage, version>>

\* the last call was transitionTo(last.target) with delay 0
ImmediateCall == last.op = "transitionTo" /\ last.delay = 0

\* the error transitionTo(last.target) met in its try block, seen from the
\* state it was called in (states, transitions, rules are not changed by it)
LastError ==
  TransitionError(transitions, rules, NameOf(states, last.from), last.target)

\* some edge (from, to) has a guard that evaluates true
EdgeWithTrueGuard(from, to) ==
  \E i \in DOMAIN transitions :
    /\ transitions[i].from = from
    /\ transitions[i].to = to
    /\ CanTransition(rules, transitions[i]) = "T"

\* the guard of the edge transitionTo selects for (from, to): "T", "F",
\* "throws", or "none" when there is no such edge
GuardOf(from, to) ==
  LET ti == FindTransition(transitions, from, to)
  IN IF ti = 0 THEN "none" ELSE CanTransition(rules, transitions[ti])

\* C1: exactly one State has isActive = true, never zero and never two
C1_ExactlyOneActive == Cardinality(ActiveStates) = 1

C3_Original ==
  [][(/\ currentState = 1
      /\ previousState = 0
      /\ last'.op = "transitionTo"
      /\ GuardOf(CurName, last'.target) = "F")
     => (/\ NameOf(states', currentState') = CurName
         /\ last'.raised = "InvalidTransition")]_vars

\* C3 amended: with previousState null (as in the initial state) and the
\* edge to the target guarded by a rule that evaluates false,
\* transitionTo(target) leaves the current state unchanged, reports
\* InvalidTransition to the error handler and raises NoPreviousState
C3_GuardFalse ==
  [][(/\ previousState = 0
      /\ last'.op = "transitionTo"
      /\ GuardOf(CurName, last'.target) = "F")
     => (/\ currentState' = currentState
         /\ NameOf(states', currentState') = CurName
         /\ last'.handled = "InvalidTransition"
         /\ last'.raised = "NoPreviousState")]_vars

C3_Witness ==
  /\ last.op = "transitionTo"
  /\ GuardOf(NameOf(states, last.from), last.target) = "F"
  /\ last.handled = "InvalidTransition"
  /\ last.raised = "NoPreviousState"
  /\ currentState = 1
  /\ last.from = 1

\* C4: transitionTo(target) over an edge with a true guard whose target State
\* does not exist reports an error to the error handler and leaves the prior
\* state current and active
C4_UnknownState ==
  (/\ ImmediateCall
   /\ LastError = NoError
   /\ FindState(states, last.target) = 0)
  => (/\ last.handled # NoError
      /\ currentState = last.from
      /\ states[currentState].isActive)

\* C5: a delayed transitionTo over an edge whose guard is true returns with
\* the old state still current and a timer armed for the target
C5_Scheduled ==
  (/\ last.op = "transitionTo"
   /\ last.delay > 0
   /\ LastError = NoError)
  => (/\ currentState = last.from
      /\ last.handled = NoError
      /\ last.raised = NoError
      /\ timers[last.target] = "armed")

\* C5: when a timer fires and a State named as its target exists, that State
\* is the current state
C5_Fired ==
  (/\ last.op \in {"timer", "leakedTimer"}
   /\ FindState(states, last.target) # 0)
  => (/\ CurName = last.target
      /\ currentState = FindState(states, last.target))

\* C5: a delayed transitionTo(target, delay) over an edge whose guard is true
\* returns with the old state current; its timer, unless cancelled with
\* clearTimer, eventually fires, and after it fired the current state is target
C5_DelayedTransition ==
  /\ []C5_Scheduled
  /\ []C5_Fired
  /\ \A n \in Names :
       (timers[n] = "armed" /\ FindState(states, n) # 0)
         ~> \/ (last.op = "timer" /\ last.target = n /\ CurName = n)
            \/ (last.op = "clearTimer" /\ last.target = n)

C5_Witness ==
  /\ last.op = "timer"
  /\ CurName = last.target
  /\ last.from # currentState
  /\ timers[last.target] = "fired"

\* C6: a second delayed request for a target replaces the timer of the first:
\* no target ever has two armed timeouts, so each target fires once
C6_OneTimerPerTarget ==
  \A n \in Names : (IF timers[n] = "armed" THEN 1 ELSE 0) + leaked[n] <= 1

\* C7: after a successful rollback previousState is null
C7_Cleared ==
  (last.op = "rollback" /\ last.raised = NoError) => previousState = 0

\* C7: a rollback with previousState null fails with NoPreviousState and
\* changes neither currentState nor any isActive flag
C7_SecondFails ==
  (previousState = 0 /\ last'.op = "rollback")
  => (/\ last'.raised = "NoPreviousState"
      /\ UNCHANGED <<states, currentState, previousState>>)

\* C7: only a successful transition makes previousState non-null again
C7_OnlyTransitionSets ==
  (previousState = 0 /\ previousState' # 0)
  => (/\ last'.op = "transitionTo"
      /\ last'.outcome = "applied"
      /\ last'.raised = NoError
      /\ previousState' = currentState)

\* C7: after a successful rollback previousState is null, and a second
\* rollback with no successful transition in between fails with
\* NoPreviousState and changes neither currentState nor any isActive flag
C7_RollbackOnce ==
  /\ []C7_Cleared
  /\ [][C7_SecondFails]_vars
  /\ [][C7_OnlyTransitionSets]_vars

C7_Witness ==
  /\ last.op = "rollback"
  /\ last.raised = "NoPreviousState"
  /\ previousState = 0
  /\ storage["currentState"] # CurName

\* C8: after clearTimer(name) no handle is stored under name
C8_Removed ==
  last.op = "clearTimer" => timers[last.target] = Undefined

\* C8: clearTimer on a name with no stored handle changes nothing and raises
\* nothing; on a name whose timer is not armed it changes nothing but the
\* stored handle
C8_NoOp ==
  last'.op = "clearTimer"
  => (/\ last'.raised = NoError
      /\ timers[last'.target] = Undefined => UNCHANGED ProgramVars
      /\ timers[last'.target] # "armed" =>
           UNCHANGED <<states, transitions, rules, currentState, previousState,
                       leaked, storage, version>>
      /\ \A n \in Names : n # last'.target => timers'[n] = timers[n])

\* C8: calling clearTimer(name) twice in a row leaves the workflow as calling
\* it once does, and clearTimer on a name with no pending timer is a no-op
C8_ClearTimerIdempotent ==
  /\ []C8_Removed
  /\ [][C8_NoOp]_vars

C8_Witness ==
  /\ last.op = "clearTimer"
  /\ timers[last.target] = Undefined
  /\ \E n \in Names : timers[n] = "armed"

\* C9: saveVersion(v) followed by loadVersion() leaves getVersion() = v and
\* the key 'version' of the storage holds v
C9_VersionRoundTrip ==
  /\ [](last.op = "saveVersion"
          => version = last.target /\ StorageGet(storage, "version") = last.target)
  /\ [][(last.op = "saveVersion" /\ last'.op = "loadVersion")
          => (/\ version' = last.target
              /\ StorageGet(storage', "version") = last.target)]_vars

C9_Witness ==
  /\ last.op = "loadVersion"
  /\ last.target = "2.0.0"
  /\ version = "2.0.0"
  /\ StorageGet(storage, "version") = "2.0.0"

\* the last call was a transitionTo with delay 0 that was applied
AppliedCall ==
  /\ ImmediateCall
  /\ LastError = NoError
  /\ FindState(states, last.target) # 0

\* C10: after a successful transitionTo(target) with delay 0 the key
\* 'currentState' of the storage holds target
C10_Saved ==
  AppliedCall => StorageGet(storage, "currentState") = last.target

\* C10: loadState right after it leaves target current
C10_Reload ==
  (AppliedCall /\ last'.op = "loadState")
  => NameOf(states', currentState') = last.target

\* C10: loadState makes the first State with the stored name current and
\* active whatever the edges and their guards are
C10_NoGuard ==
  (/\ last'.op = "loadState"
   /\ Truthy(StorageGet(storage, "currentState"))
   /\ FindState(states, StorageGet(storage, "currentState")) # 0)
  => (/\ currentState' = FindState(states, StorageGet(storage, "currentState"))
      /\ states'[currentState'].isActive
      /\ last'.raised = NoError)

\* C10: after a successful transitionTo(target) with delay 0 the persisted
\* key 'currentState' holds target and loadState() leaves target current;
\* loadState sets the loaded State active without evaluating a guard
C10_SaveLoadState ==
  /\ []C10_Saved
  /\ [][C10_Reload]_vars
  /\ [][C10_NoGuard]_vars

C10_Witness ==
  /\ last.op = "loadState"
  /\ last.from # currentState
  /\ CurName = StorageGet(storage, "currentState")
  /\ states[currentState].isActive
  /\ TransitionError(transitions, rules, NameOf(states, last.from), CurName) # NoError

----------------------------------------------------------------------------
(* Events, rules, notifications, the control surface *)

\* the positions of the steps of the last call that are of one of the kinds
StepsOf(kinds) == {i \in DOMAIN last.steps : last.steps[i].step \in kinds}

\* the last call applied a transition, at once or when its timer fired
AppliedTransition ==
  /\ last.op \in {"transitionTo", "timer", "leakedTimer"}
  /\ last.outcome = "applied"

\* C11: when transitionTo(target) is applied, the callback of every Event
\* added with addEvent under the name "transitionTo" + target is invoked
C11_EventFires ==
  (last.op = "transitionTo" /\ last.outcome = "applied")
  => \A i \in DOMAIN events :
       events[i].name = SyntheticEvent(last.target)
       => \E j \in DOMAIN last.invoked : last.invoked[j] = events[i].callback

\* C12 as stated: triggerEvent(eventName) invokes every listener registered
\* under eventName exactly once, in registration order, and no other
C12_Original ==
  last.op = "triggerEvent" => last.invoked = listeners[last.target]

\* C12 amended: triggerEvent(eventName) invokes the listeners registered
\* under eventName in registration order, each once, up to and including the
\* first one that throws (all of them when none throws), and no listener
\* registered under a different name; the error of a throwing listener is
\* raised to the caller; a name with no listeners invokes nothing
C12_TriggerInOrder ==
  last.op = "triggerEvent"
  => LET cbs == listeners[last.target]
         inv == last.invoked
     IN /\ Len(inv) <= Len(cbs)
        /\ \A i \in DOMAIN inv : inv[i] = cbs[i]
        /\ \A i \in DOMAIN inv : i < Len(inv) => inv[i] # "throwing"
        /\ Len(inv) < Len(cbs) => (inv # <<>> /\ inv[Len(inv)] = "throwing")
        /\ last.raised = IF \E i \in DOMAIN inv : inv[i] = "throwing"
                         THEN "ListenerError" ELSE NoError
        /\ cbs = <<>> => inv = <<>>

C12_Witness ==
  /\ last.op = "triggerEvent"
  /\ last.target = "customEvent"
  /\ last.invoked = <<"second", "first">>
  /\ listeners["customEvent"] = <<"second", "first">>

\* C13: evaluating a name right after addRule(name, predicate) returns the
\* result of that predicate, whatever was registered under the name before
C13_Registered ==
  \A r \in RuleNames, p \in {"T", "F"} :
    EvaluateRule(AddRule(rules, r, p), r) = p

\* C13: evaluateRule(name) returns the result of the registered predicate
\* and fails with RuleNotFound when none is registered under name
C13_Evaluated ==
  last.op = "evaluateRule"
  => IF rules[last.target] = Undefined
     THEN last.outcome = "throws" /\ last.raised = "RuleNotFound"
     ELSE last.outcome = rules[last.target] /\ last.raised = NoError

\* C13: addRule(name, predicate) registers the predicate or overwrites the
\* registered one, evaluateRule(name) returns the result of the most recently
\* registered predicate, and fails with RuleNotFound, leaving the rule set
\* unchanged, when no predicate is registered under name
C13_RuleRegistry ==
  /\ []C13_Registered
  /\ []C13_Evaluated
  /\ [][last'.op = "evaluateRule" => rules' = rules]_vars

\* the rule "true" returned true when the transition was applied, and false
\* after it was registered again
C13_Witness ==
  /\ last.op = "evaluateRule"
  /\ last.outcome = "F"
  /\ previousState # 0

\* C14: the log line and the webhook payload of an applied transition carry
\* the name of the state that was current before it as from and the target
\* as to; a webhook is sent only when a webhookUrl is configured
C14_NotificationLabels ==
  AppliedTransition
  => /\ \A i \in StepsOf({"log", "webhook"}) :
          /\ last.steps[i].from = OldStateName(states, last.from)
          /\ last.steps[i].to = last.target
     /\ StepsOf({"webhook", "webhookEvent"}) # {} => Truthy(webhookUrl)

\* every name of the list is reached over an edge whose guard is true
ChainValid(from, list) ==
  \A i \in DOMAIN list :
    /\ FindState(states, list[i]) # 0
    /\ TransitionError(transitions, rules,
                       IF i = 1 THEN from ELSE list[i - 1], list[i]) = NoError

\* C15: transitionToParallel(list), the list being a chain of edges with
\* true guards from the current state, raises no error and leaves the last
\* name of the list current
C15_ParallelCompletes ==
  (/\ last.op = "transitionToParallel"
   /\ ChainValid(NameOf(states, last.from), last.list))
  => (last.raised = NoError /\ CurName = last.target)

\* C16: POST /transition does not answer {success: true} when the
\* transition failed: no matching edge, false guard, or unknown target State
C16_ClientError ==
  (/\ last.op = "postTransition"
   /\ (last.handled # NoError \/ last.outcome = "noState"))
  => last.response # "success"

\* C17: after a transitionTo that reported an error to the error handler,
\* the current state is the one that was current before the call and it is
\* the only active state
C17_FailureRestores ==
  (last.op = "transitionTo" /\ last.handled # NoError)
  => (currentState = last.from /\ ActiveStates = {last.from})

\* C18: after a successful rollback the key 'currentState' of the storage
\* holds the name of the current state; rollback logs a state change from
\* 'rollback' and evaluates no guard
C18_RollbackPersists ==
  (last.op = "rollback" /\ last.raised = NoError)
  => (/\ StorageGet(storage, "currentState") = CurName
      /\ \E i \in StepsOf({"log"}) : last.steps[i].from = "rollback"
      /\ StepsOf({"guard"}) = {})

\* C19: in a transitionTo the guard is evaluated before any flag or pointer
\* changes; in an applied transition the name is saved after the flags and
\* the pointers were set, and the log line, the webhook and the event come
\* after the save
C19_StepOrder ==
  /\ last.op = "transitionTo"
     => /\ \A g \in StepsOf({"guard"}), m \in StepsOf({"deactivate", "mutate"}) :
             g < m
        /\ StepsOf({"deactivate", "mutate"}) # {} => StepsOf({"guard"}) # {}
  /\ AppliedTransition
     => /\ StepsOf({"mutate"}) # {} /\ StepsOf({"persist"}) # {}
        /\ \A m \in StepsOf({"mutate"}), p \in StepsOf({"persist"}) : m < p
        /\ StepsOf({"log"}) # {} /\ StepsOf({"trigger"}) # {}
        /\ \A p \in StepsOf({"persist"}),
              n \in StepsOf({"log", "webhook", "trigger", "webhookEvent"}) :
             p < n

C19_Witness ==
  /\ last.op = "transitionTo"
  /\ last.outcome = "applied"
  /\ StepsOf({"webhook"}) # {}
  /\ StepsOf({"guard"}) # {}
  /\ StorageGet(storage, "currentState") = last.target

\* C20: clearTimer(target) right after transitionTo(target, delay) scheduled
\* the transition leaves the state that was current at scheduling current
\* and active
C20_CancelRestores ==
  [][(/\ last.op = "transitionTo"
      /\ last.outcome = "scheduled"
      /\ last'.op = "clearTimer"
      /\ last'.target = last.target)
     => (/\ currentState' = last.from
         /\ states'[last.from].isActive
         /\ timers'[last.target] = Undefined)]_vars

----------------------------------------------------------------------------
(* Timers, previousState, networked storage, late-bound guards, frames *)

\* the operations that apply a transition
TransitionOps == {"transitionTo", "timer", "leakedTimer"}

\* the error transitionTo(stateName) meets in its try block in this state
ErrorNow(stateName) ==
  TransitionError(transitions, rules, CurName, stateName)

\* C21: timers holds an entry for a name exactly while a timer for that name
\* is armed and has not fired, and at most one timer is armed per name
C21_PendingSet ==
  \A n \in Names :
    /\ timers[n] # Undefined <=> (timers[n] = "armed" \/ leaked[n] > 0)
    /\ timers[n] # Undefined => (timers[n] = "armed" /\ leaked[n] = 0)

\* C22: when a transition is applied, at once or by a timer firing, and
\* previousState is non-null after it, previousState is the state that was
\* current before it
C22_PreviousIsPreceding ==
  [][(/\ last'.op \in TransitionOps
      /\ last'.outcome = "applied"
      /\ previousState' # 0)
     => previousState' = currentState]_vars

\* C23: no transition is applied or scheduled while the write of the
\* transition applied before it is in flight, and once no write is in flight
\* the key 'currentState' holds the name given to the last save
C23_InFlightExclusive ==
  /\ [][(/\ AppliedTransition
         /\ storage.inflight # <<>>
         /\ last'.op \in TransitionOps
         /\ last'.outcome \in {"applied", "scheduled"})
        => FALSE]_vars
  /\ [](storage.inflight = <<>>
          => StorageGet(storage, "currentState") = storage.issued)

\* C24: when the storage rejects the write of the name of the state an
\* applied transition made current, the failure is reported to the error
\* handler and that state stays current and active
C24_FailureReported ==
  (/\ last.op = "writeRejected"
   /\ previousState # 0
   /\ last.target = CurName)
  => (last.handled = "StorageError" /\ states[currentState].isActive)

\* C25: transitionTo over an edge whose rule is not registered reports
\* RuleNotFound and leaves the name of the current state unchanged
C25_UnregisteredRule ==
  (last.op = "transitionTo" /\ last.handled = "RuleNotFound")
  => CurName = NameOf(states, last.from)

\* C26: with previousState null, transitionTo(target) over no edge, a false
\* guard or an unregistered rule reports that failure to the error handler
\* only, and rejects with the NoPreviousState of the rollback; nothing changes
C26_RollbackFailurePropagates ==
  [][(/\ previousState = 0
      /\ last'.op = "transitionTo"
      /\ GuardOf(CurName, last'.target) # "T")
     => (/\ last'.handled = (IF GuardOf(CurName, last'.target) = "throws"
                             THEN "RuleNotFound" ELSE "InvalidTransition")
         /\ last'.raised = "NoPreviousState"
         /\ last'.outcome = "rejected"
         /\ UNCHANGED ProgramState)]_vars

C26_Witness ==
  /\ last.op = "transitionTo"
  /\ last.handled = "RuleNotFound"
  /\ last.raised = "NoPreviousState"
  /\ previousState = 0
  /\ currentState = last.from

\* C27: a transitionTo rejected for a missing edge or a false guard changes
\* neither currentState, previousState, an isActive flag nor the storage
C27_RejectedChangesNothing ==
  [][(last'.op = "transitionTo" /\ last'.handled = "InvalidTransition")
     => UNCHANGED <<states, currentState, previousState, storage>>]_vars

\* C28: when an applied transition, immediate or timed, changes the current
\* state from A to B, an edge (A, B) exists
C28_MovesAlongEdges ==
  [][(/\ last'.op \in TransitionOps
      /\ last'.outcome = "applied"
      /\ currentState' # currentState)
     => FindTransition(transitions, CurName,
                       NameOf(states', currentState')) # 0]_vars

\* C29: a call that logged a state change to target, sent its webhook or
\* triggered its event, and caught no error, ends with target current and
\* active
C29_EmittedOnlyWhenApplied ==
  (/\ last.op \in TransitionOps
   /\ last.handled = NoError
   /\ StepsOf({"log", "webhook", "trigger"}) # {})
  => (CurName = last.target /\ states[currentState].isActive)

====
